---- MODULE Spec2Model ----
(***************************************************************************)
(* Prevalence rate and bootstrap confidence intervals                      *)
(* (src/src/mental_health/utils/prevelance_rate_CI.py).                    *)
(*                                                                         *)
(* Rates are exact rationals [n, d] in lowest terms; a Python true         *)
(* division by zero is the raised outcome of TrueDiv.  A log record is     *)
(* <<level, message>>; a function of the module yields the records it      *)
(* hands to the logger, and Handle keeps those the logging configuration   *)
(* lets through.                                                           *)
(***************************************************************************)
EXTENDS Integers, Sequences, FiniteSets

VARIABLES
    manager_disable,   \* logging.disable level of the process (logging.root.manager.disable)
    rateArgs,          \* arguments of the last calculate_prevalence_rate call, <<>> before any
    rateRet,           \* its outcome [raised, rate, log]
    ratePrev,          \* <<[args, ret]>> of the call before it when the denominators were kept
    df,                \* the caller's dataset: a sequence of rows
    op,                \* the caller's last operation on the dataset
    dpOut,             \* <<[name, raised, rate, log]>> of the last calculate_disorder_prevalence call
    ciArgs,            \* <<[bootstrap_rates, confidence_level]>> of the calculate_confidence_interval call
    ciRet,             \* its outcome [raised, lower, upper]
    args,              \* arguments of the bootstrap_prevalence_rate / analyze_disorder_prevalence call
    pc,                \* where that call is: "idle", "loop", "returned", "done", "raised"
    rng,               \* state of the generator rng
    main_question_df,  \* rows of the 2016 main question
    follow_up_df,      \* rows of the 2016 follow-up question
    original_rate,
    bootstrap_rates,
    resample,          \* <<[main, follow_up, population, total_condition_reports]>> of the last iteration
    emitted,           \* the log records the call has emitted so far
    prevOut,           \* <<[original_rate, bootstrap_rates]>> of the bootstrap call before this one
    analysis           \* <<dict>> returned by analyze_disorder_prevalence

rateVars == <<rateArgs, rateRet, ratePrev>>
dpVars == <<op, dpOut>>
ciVars == <<ciArgs, ciRet>>
runVars == <<pc, rng, main_question_df, follow_up_df, original_rate,
             bootstrap_rates, resample, emitted, prevOut, analysis>>
bootVars == <<args, runVars>>

vars == <<manager_disable, rateVars, df, dpVars, ciVars, bootVars>>

----------------------------------------------------------------------------
\* Bounds of the model.

MaxCount == 3
MaxRows == 3
MaxRates == 3
RateDen == 2
CLDen == 4
MaxIter == 2

----------------------------------------------------------------------------
\* Exact rational arithmetic.

RECURSIVE GCD(_, _)
GCD(a, b) == IF b = 0 THEN a ELSE GCD(b, a % b)

Abs(x) == IF x < 0 THEN -x ELSE x

Frac(n, d) ==
    LET g == GCD(Abs(n), Abs(d))
        s == IF d < 0 THEN -1 ELSE 1
    IN  [n |-> (s * n) \div g, d |-> (s * d) \div g]

Zero == [n |-> 0, d |-> 1]
One == [n |-> 1, d |-> 1]

FMul(a, b) == Frac(a.n * b.n, a.d * b.d)
FAdd(a, b) == Frac(a.n * b.d + b.n * a.d, a.d * b.d)
FSub(a, b) == Frac(a.n * b.d - b.n * a.d, a.d * b.d)
FLeq(a, b) == a.n * b.d <= b.n * a.d
FLt(a, b) == a.n * b.d < b.n * a.d

----------------------------------------------------------------------------
\* Logging (utils/logs.py and the logging calls of prevelance_rate_CI.py).

NOTSET == 0
INFO == 20
WARNING == 30
ERROR == 40

\* logging.basicConfig(level=logging.INFO): the effective level of project_logger.
EffectiveLevel == INFO

LevelNo(level) ==
    CASE level = "INFO" -> INFO
      [] level = "WARNING" -> WARNING
      [] level = "ERROR" -> ERROR

\* Logger.isEnabledFor: a record passes when its level is above the disable
\* level and at least the effective level.
IsEnabledFor(level, disable) ==
    /\ LevelNo(level) > disable
    /\ LevelNo(level) >= EffectiveLevel

Handle(records, disable) ==
    SelectSeq(records, LAMBDA r : IsEnabledFor(r[1], disable))

HasRecord(records, level, msg) ==
    \E k \in DOMAIN records : records[k] = <<level, msg>>

----------------------------------------------------------------------------
\* calculate_prevalence_rate

TrueDiv(a, b) ==
    IF b = 0 THEN [raised |-> TRUE, v |-> Zero]
    ELSE [raised |-> FALSE, v |-> Frac(a, b)]

ExceedsPopulationInclusive(diagnosed_cases, population) ==
    diagnosed_cases >= population

ExceedsPopulation(diagnosed_cases, population) ==
    diagnosed_cases > population

diagnosis_rate_inverted(diagnosed_cases, population) ==
    TrueDiv(population, diagnosed_cases)

diagnosis_rate(diagnosed_cases, population) ==
    TrueDiv(diagnosed_cases, population)

condition_rate_unguarded(specific_condition_count, total_condition_reports) ==
    TrueDiv(specific_condition_count, total_condition_reports)

condition_rate(specific_condition_count, total_condition_reports) ==
    IF total_condition_reports > 0
    THEN TrueDiv(specific_condition_count, total_condition_reports)
    ELSE [raised |-> FALSE, v |-> Zero]

calculate_prevalence_rate(population, diagnosed_cases, total_condition_reports, specific_condition_count) ==
    LET start == << <<"INFO", "Calculating prevalence rate">> >>
    IN  IF population = 0
        THEN [raised |-> FALSE, rate |-> Zero,
              log |-> Append(start, <<"ERROR", "Population cannot be zero">>)]
        ELSE
          LET warned ==
                  IF ExceedsPopulation(diagnosed_cases, population)
                  THEN Append(start, <<"WARNING", "Diagnosed cases exceed population">>)
                  ELSE start
              dr == diagnosis_rate(diagnosed_cases, population)
              cr == condition_rate(specific_condition_count, total_condition_reports)
          IN  IF dr.raised \/ cr.raised
              THEN [raised |-> TRUE, rate |-> Zero, log |-> warned]
              ELSE [raised |-> FALSE, rate |-> FMul(dr.v, cr.v),
                    log |-> warned \o << <<"INFO", "Diagnosis Rate">>,
                                         <<"INFO", "Condition Rate">>,
                                         <<"INFO", "Prevalence Rate">> >>]

Counts == 0 .. MaxCount

RateCall(p, d, t, c) ==
    LET r == calculate_prevalence_rate(p, d, t, c)
    IN  /\ rateArgs' = <<[population |-> p, diagnosed_cases |-> d,
                          total_condition_reports |-> t,
                          specific_condition_count |-> c]>>
        /\ rateRet' = [raised |-> r.raised, rate |-> r.rate,
                       log |-> Handle(r.log, manager_disable)]

\* The first call of calculate_prevalence_rate, with any four non-negative
\* integers.
CallRate ==
    /\ rateArgs = <<>>
    /\ \E p \in Counts, d \in Counts, t \in Counts, c \in Counts :
          RateCall(p, d, t, c)
    /\ ratePrev' = <<>>
    /\ UNCHANGED <<manager_disable, df, dpVars, ciVars, bootVars>>

\* A further call that keeps population and total_condition_reports of the
\* call before it.
CallRateAgain ==
    /\ rateArgs # <<>>
    /\ ratePrev = <<>>
    /\ \E d \in Counts, c \in Counts :
          RateCall(rateArgs[1].population, d,
                   rateArgs[1].total_condition_reports, c)
    /\ ratePrev' = <<[args |-> rateArgs[1], ret |-> rateRet]>>
    /\ UNCHANGED <<manager_disable, df, dpVars, ciVars, bootVars>>

RateQuiet ==
    /\ rateArgs = <<>>
    /\ rateRet = [raised |-> FALSE, rate |-> Zero, log |-> <<>>]
    /\ ratePrev = <<>>

DpQuiet ==
    /\ op = "none"
    /\ dpOut = <<>>

CiQuiet ==
    /\ ciArgs = <<>>
    /\ ciRet = [raised |-> FALSE, lower |-> Zero, upper |-> Zero]

RunQuiet ==
    /\ pc = "idle"
    /\ rng = 0
    /\ main_question_df = <<>>
    /\ follow_up_df = <<>>
    /\ original_rate = Zero
    /\ bootstrap_rates = <<>>
    /\ resample = <<>>
    /\ emitted = <<>>
    /\ prevOut = <<>>
    /\ analysis = <<>>

BootQuiet ==
    /\ args = <<>>
    /\ RunQuiet

InitRate ==
    /\ manager_disable \in {NOTSET, INFO}
    /\ RateQuiet
    /\ df = <<>>
    /\ DpQuiet
    /\ CiQuiet
    /\ BootQuiet

NextRate == CallRate \/ CallRateAgain

SpecRate == InitRate /\ [][NextRate]_vars

----------------------------------------------------------------------------
\* calculate_disorder_prevalence

MainQuestion == "Do you currently have a mental health disorder?"
FollowUpQuestion == "If yes, what condition(s) have you been diagnosed with?"
OtherQuestion == "What is your age?"

Disorders == {"Mood Disorder", "Anxiety Disorder"}

Row(id, q, a) == [SurveyID |-> id, questiontext |-> q, AnswerText |-> a]

\* The rows a dataset of the model is made of: the two questions of the 2016
\* survey with matching and non-matching answers, a row of another survey
\* year, and a row of another question.
Rows ==
    { Row(2016, MainQuestion, "Yes"),
      Row(2016, MainQuestion, "No"),
      Row(2016, FollowUpQuestion, "Mood Disorder"),
      Row(2016, FollowUpQuestion, "Anxiety Disorder"),
      Row(2014, MainQuestion, "Yes"),
      Row(2016, OtherQuestion, "Mood Disorder") }

AllSurveys(frame) == frame

\* df[df["SurveyID"] == 2016]: the rows that satisfy the mask, in order.
Survey2016(frame) == SelectSeq(frame, LAMBDA r : r.SurveyID = 2016)

calculate_disorder_prevalence(frame, disorder_name) ==
    LET df_2016 == Survey2016(frame)
        population ==
            Len(SelectSeq(df_2016, LAMBDA r : r.questiontext = MainQuestion))
        diagnosed_cases ==
            Len(SelectSeq(df_2016, LAMBDA r : r.questiontext = MainQuestion
                                            /\ r.AnswerText = "Yes"))
        total_condition_reports ==
            Len(SelectSeq(df_2016, LAMBDA r : r.questiontext = FollowUpQuestion))
        disorder_reports ==
            Len(SelectSeq(df_2016, LAMBDA r : r.questiontext = FollowUpQuestion
                                            /\ r.AnswerText = disorder_name))
        pr == calculate_prevalence_rate(population, diagnosed_cases,
                                        total_condition_reports, disorder_reports)
        counted == << <<"INFO", "Total Population">>,
                      <<"INFO", "Diagnosed Cases">>,
                      <<"INFO", "Total Condition Reports">>,
                      <<"INFO", "Disorder Reports">> >>
    IN  [raised |-> pr.raised,
         rate |-> pr.rate,
         population |-> population,
         total_condition_reports |-> total_condition_reports,
         log |-> IF pr.raised THEN counted \o pr.log
                 ELSE (counted \o pr.log)
                         \o << <<"INFO", "Final Prevalence Rate">> >>]

\* The caller appends a row to its dataset.
AddRow ==
    /\ Len(df) < MaxRows
    /\ \E r \in Rows : df' = Append(df, r)
    /\ op' = "add"
    /\ UNCHANGED <<manager_disable, rateVars, dpOut, ciVars, bootVars>>

\* The caller removes a row from its dataset.
RemoveRow ==
    /\ \E k \in DOMAIN df :
          df' = [j \in 1 .. Len(df) - 1 |-> IF j < k THEN df[j] ELSE df[j + 1]]
    /\ op' = "remove"
    /\ UNCHANGED <<manager_disable, rateVars, dpOut, ciVars, bootVars>>

CallDisorderPrevalence ==
    /\ \E name \in Disorders :
          LET r == calculate_disorder_prevalence(df, name)
          IN  dpOut' = <<[name |-> name, raised |-> r.raised, rate |-> r.rate,
                          log |-> Handle(r.log, manager_disable)]>>
    /\ op' = "call"
    /\ UNCHANGED <<manager_disable, rateVars, df, ciVars, bootVars>>

InitDP ==
    /\ manager_disable = NOTSET
    /\ RateQuiet
    /\ df = <<>>
    /\ DpQuiet
    /\ CiQuiet
    /\ BootQuiet

NextDP == AddRow \/ RemoveRow \/ CallDisorderPrevalence

SpecDP == InitDP /\ [][NextDP]_vars

\* The number of rows of the 2016 survey that ask q and, when answers is not
\* empty, answer one of answers.
Count2016(frame, q, answers) ==
    Cardinality({k \in DOMAIN frame :
                    /\ frame[k].SurveyID = 2016
                    /\ frame[k].questiontext = q
                    /\ (answers = {} \/ frame[k].AnswerText \in answers)})

\* The rows of the 2016 survey that ask one of the two questions, in order.
Relevant(frame) ==
    SelectSeq(frame, LAMBDA r : r.SurveyID = 2016
                                 /\ r.questiontext \in {MainQuestion, FollowUpQuestion})

\* C8: calculate_disorder_prevalence(dataset, disorder_name) is
\* calculate_prevalence_rate of the four counts taken over the rows of survey
\* 2016 alone, it leaves the dataset as it was, and adding or removing a row of
\* another survey year or another question does not change its result.
C8_PrevalenceOf2016Counts ==
    /\ [][ (op' = "call") =>
              /\ df' = df
              /\ LET o == dpOut'[1]
                     r == calculate_prevalence_rate(
                              Count2016(df, MainQuestion, {}),
                              Count2016(df, MainQuestion, {"Yes"}),
                              Count2016(df, FollowUpQuestion, {}),
                              Count2016(df, FollowUpQuestion, {o.name}))
                 IN  o.raised = r.raised /\ o.rate = r.rate ]_vars
    /\ [][ (op' \in {"add", "remove"} /\ Relevant(df') = Relevant(df)) =>
              \A name \in Disorders :
                  calculate_disorder_prevalence(df', name).rate
                      = calculate_disorder_prevalence(df, name).rate ]_vars

\* A call on a dataset that holds a row of another survey year beside rows of
\* both 2016 questions has returned the rate 1.
C8_Witness ==
    /\ op = "call"
    /\ dpOut # <<>>
    /\ dpOut[1].rate = One
    /\ \E k \in DOMAIN df : df[k].SurveyID # 2016
    /\ Count2016(df, MainQuestion, {"Yes"}) > 0
    /\ Count2016(df, FollowUpQuestion, {dpOut[1].name}) > 0

----------------------------------------------------------------------------
\* calculate_confidence_interval

\* float("nan"), the value numpy gives for a statistic of no data.
NaN == [n |-> 0, d |-> 0]

RECURSIVE Insert(_, _)
Insert(x, s) ==
    IF s = <<>> THEN <<x>>
    ELSE IF FLeq(x, s[1]) THEN <<x>> \o s
         ELSE <<s[1]>> \o Insert(x, Tail(s))

RECURSIVE Sort(_)
Sort(s) == IF s = <<>> THEN <<>> ELSE Insert(s[1], Sort(Tail(s)))

Floor(x) == x.n \div x.d

\* np.percentile(a, pct), method "linear": pct outside [0, 100] raises
\* ValueError; otherwise the value at the virtual index pct/100 * (n - 1) of
\* the sorted data, interpolated between the two order statistics around it.
\* On empty data the result depends on the numpy build (an IndexError or nan):
\* onEmpty names the outcome.
np_percentile(a, pct, onEmpty) ==
    IF FLt(pct, Zero) \/ FLt(Frac(100, 1), pct)
    THEN [raised |-> TRUE, v |-> Zero]
    ELSE IF a = <<>>
    THEN [raised |-> (onEmpty = "raise"), v |-> NaN]
    ELSE
      LET sorted == Sort(a)
          n == Len(a)
          virtual == FMul(FMul(pct, Frac(1, 100)), Frac(n - 1, 1))
          lo == Floor(virtual)
          hi == IF lo + 1 <= n - 1 THEN lo + 1 ELSE n - 1
          gamma == FSub(virtual, Frac(lo, 1))
      IN  [raised |-> FALSE,
           v |-> FAdd(sorted[lo + 1],
                      FMul(FSub(sorted[hi + 1], sorted[lo + 1]), gamma))]

lower_percentile_sign(confidence_level) ==
    FMul(FAdd(One, confidence_level), Frac(1, 2))

lower_percentile(confidence_level) ==
    FMul(FSub(One, confidence_level), Frac(1, 2))

upper_percentile(confidence_level) ==
    FSub(One, lower_percentile(confidence_level))

calculate_confidence_interval(rates, confidence_level, onEmpty) ==
    LET lower_bound ==
            np_percentile(rates,
                          FMul(lower_percentile(confidence_level), Frac(100, 1)),
                          onEmpty)
        upper_bound ==
            np_percentile(rates,
                          FMul(upper_percentile(confidence_level), Frac(100, 1)),
                          onEmpty)
    IN  [raised |-> lower_bound.raised \/ upper_bound.raised,
         lower |-> lower_bound.v,
         upper |-> upper_bound.v]

RateValues == {Frac(j, RateDen) : j \in 0 .. RateDen}
RateLists == UNION {[1 .. n -> RateValues] : n \in 0 .. MaxRates}

\* Confidence levels k/CLDen: 0 and 1, the levels between them, and one above 1.
ConfidenceLevels == {Frac(k, CLDen) : k \in 0 .. CLDen + 1}

NumpyOnEmpty == {"raise", "nan"}

CallConfidenceInterval ==
    /\ ciArgs = <<>>
    /\ \E rates \in RateLists, cl \in ConfidenceLevels, onEmpty \in NumpyOnEmpty :
          /\ ciArgs' = <<[bootstrap_rates |-> rates, confidence_level |-> cl]>>
          /\ ciRet' = calculate_confidence_interval(rates, cl, onEmpty)
    /\ UNCHANGED <<manager_disable, rateVars, df, dpVars, bootVars>>

InitCI ==
    /\ manager_disable = NOTSET
    /\ RateQuiet
    /\ df = <<>>
    /\ DpQuiet
    /\ CiQuiet
    /\ BootQuiet

NextCI == CallConfidenceInterval

SpecCI == InitCI /\ [][NextCI]_vars

CiMin(rates) == CHOOSE x \in {rates[k] : k \in DOMAIN rates} :
                    \A k \in DOMAIN rates : FLeq(x, rates[k])
CiMax(rates) == CHOOSE x \in {rates[k] : k \in DOMAIN rates} :
                    \A k \in DOMAIN rates : FLeq(rates[k], x)

\* C5: for a non-empty bootstrap_rates and a confidence_level in (0, 1) the
\* call returns lower <= upper, lower being the linear-interpolation
\* percentile at 100*(1-confidence_level)/2 and upper the one at
\* 100*(1-(1-confidence_level)/2), both between the least and the greatest
\* of bootstrap_rates.
C5_IntervalOrdered ==
    ( /\ ciArgs # <<>>
      /\ ciArgs[1].bootstrap_rates # <<>>
      /\ FLt(Zero, ciArgs[1].confidence_level)
      /\ FLt(ciArgs[1].confidence_level, One) )
    => LET rates == ciArgs[1].bootstrap_rates
           cl == ciArgs[1].confidence_level
           atLower == Frac(100 * (cl.d - cl.n), 2 * cl.d)
           atUpper == Frac(100 * (cl.d + cl.n), 2 * cl.d)
       IN  /\ ~ciRet.raised
           /\ FLeq(ciRet.lower, ciRet.upper)
           /\ ciRet.lower = np_percentile(rates, atLower, "raise").v
           /\ ciRet.upper = np_percentile(rates, atUpper, "raise").v
           /\ FLeq(CiMin(rates), ciRet.lower)
           /\ FLeq(ciRet.upper, CiMax(rates))

\* An interval of an unsorted list whose lower bound is interpolated strictly
\* between two of its entries and lies strictly below the upper bound.
C5_Witness ==
    /\ ciArgs # <<>>
    /\ Len(ciArgs[1].bootstrap_rates) >= 2
    /\ FLt(ciArgs[1].bootstrap_rates[2], ciArgs[1].bootstrap_rates[1])
    /\ FLt(Zero, ciArgs[1].confidence_level)
    /\ FLt(ciArgs[1].confidence_level, One)
    /\ ~ciRet.raised
    /\ FLt(ciRet.lower, ciRet.upper)
    /\ \A k \in DOMAIN ciArgs[1].bootstrap_rates :
          ciRet.lower # ciArgs[1].bootstrap_rates[k]

----------------------------------------------------------------------------
\* bootstrap_prevalence_rate

\* The generator np.random.RandomState is modelled by a full-period linear
\* congruential generator on 0 .. 15: what matters of it is that its draws
\* are a function of its state, and that every draw advances the state.
Lcg(state) == (5 * state + 3) % 16

RandomStateReused(seed) == rng

\* np.random.RandomState(random_state)
RandomState(seed) == seed % 16

\* RandomState.choice(a, size=size, replace=True): size indices below a, one
\* draw each; a = 0 raises ValueError unless no sample is taken.
RECURSIVE Draw(_, _, _)
Draw(a, size, state) ==
    IF size = 0 THEN [idx |-> <<>>, rng |-> state]
    ELSE LET next == Lcg(state)
             rest == Draw(a, size - 1, next)
         IN  [idx |-> <<(next * a) \div 16>> \o rest.idx, rng |-> rest.rng]

choice(a, size, state) ==
    IF a = 0 /\ size # 0
    THEN [raised |-> TRUE, idx |-> <<>>, rng |-> state]
    ELSE LET d == Draw(a, size, state)
         IN  [raised |-> FALSE, idx |-> d.idx, rng |-> d.rng]

\* DataFrame.sample(n=n, replace=True, random_state=rng): a negative n raises
\* ValueError; otherwise the rows at the indices the generator chooses.
DataFrameSample(frame, n, state) ==
    IF n < 0 THEN [raised |-> TRUE, rows |-> <<>>, rng |-> state]
    ELSE LET c == choice(Len(frame), n, state)
         IN  [raised |-> c.raised,
              rows |-> [k \in 1 .. Len(c.idx) |-> frame[c.idx[k] + 1]],
              rng |-> c.rng]

\* sample_size is <<>> for None and <<n>> for the integer n.
\* n = sample_size if sample_size else len(frame)
SampleN(sample_size, frame) ==
    IF sample_size # <<>> /\ sample_size[1] # 0
    THEN sample_size[1]
    ELSE Len(frame)

Seeds == {42}
SampleSizes == {<<>>, <<0>>, <<1>>, <<2>>}
Datasets == UNION {[1 .. n -> Rows] : n \in 0 .. MaxRows}

\* Lines 133-146: the original rate, the two row groups, the empty list and
\* the seeded generator; records pass the logger under the disable level given.
BootBegin(disable) ==
    LET o == calculate_disorder_prevalence(df, args.disorder_name)
        df_2016 == Survey2016(df)
    IN  /\ original_rate' = o.rate
        /\ main_question_df' =
              SelectSeq(df_2016, LAMBDA r : r.questiontext = MainQuestion)
        /\ follow_up_df' =
              SelectSeq(df_2016, LAMBDA r : r.questiontext = FollowUpQuestion)
        /\ bootstrap_rates' = <<>>
        /\ rng' = RandomState(args.random_state)
        /\ resample' = <<>>
        /\ emitted' = Handle(o.log, disable)
        /\ pc' = IF o.raised THEN "raised" ELSE "loop"

\* bootstrap_prevalence_rate is called, for the first time or once more with
\* the same arguments after it returned.
BootstrapCall ==
    /\ \/ pc = "idle"
       \/ pc = "returned" /\ prevOut = <<>>
    /\ prevOut' = IF pc = "returned"
                  THEN <<[original_rate |-> original_rate,
                          bootstrap_rates |-> bootstrap_rates]>>
                  ELSE <<>>
    /\ BootBegin(manager_disable)
    /\ UNCHANGED <<manager_disable, rateVars, df, dpVars, ciVars, args, analysis>>

\* One iteration of the loop (lines 147-158).
BootstrapIter ==
    /\ pc = "loop"
    /\ Len(bootstrap_rates) < args.n_iterations
    /\ LET bootstrap_main ==
               DataFrameSample(main_question_df,
                               SampleN(args.sample_size, main_question_df), rng)
           bootstrap_follow_up ==
               DataFrameSample(follow_up_df,
                               SampleN(args.sample_size, follow_up_df),
                               bootstrap_main.rng)
           temp_df == bootstrap_main.rows \o bootstrap_follow_up.rows
           r == calculate_disorder_prevalence(temp_df, args.disorder_name)
           lengths == << <<"INFO", "Bootstrap Main length">>,
                         <<"INFO", "Bootstrap Follow-up length">> >>
       IN  IF bootstrap_main.raised
           THEN /\ pc' = "raised"
                /\ rng' = bootstrap_main.rng
                /\ UNCHANGED <<bootstrap_rates, resample, emitted>>
           ELSE IF bootstrap_follow_up.raised
           THEN /\ pc' = "raised"
                /\ rng' = bootstrap_follow_up.rng
                /\ UNCHANGED <<bootstrap_rates, resample, emitted>>
           ELSE /\ rng' = bootstrap_follow_up.rng
                /\ emitted' = emitted \o Handle(lengths \o r.log, manager_disable)
                /\ resample' =
                      <<[main |-> Len(bootstrap_main.rows),
                         follow_up |-> Len(bootstrap_follow_up.rows),
                         population |-> r.population,
                         total_condition_reports |-> r.total_condition_reports]>>
                /\ IF r.raised
                   THEN pc' = "raised" /\ UNCHANGED bootstrap_rates
                   ELSE /\ pc' = "loop"
                        /\ bootstrap_rates' = Append(bootstrap_rates, r.rate)
    /\ UNCHANGED <<manager_disable, rateVars, df, dpVars, ciVars, args,
                   main_question_df, follow_up_df, original_rate, prevOut,
                   analysis>>

\* return original_rate, bootstrap_rates (line 160)
BootstrapReturn ==
    /\ pc = "loop"
    /\ Len(bootstrap_rates) = args.n_iterations
    /\ pc' = "returned"
    /\ UNCHANGED <<manager_disable, rateVars, df, dpVars, ciVars, args, rng,
                   main_question_df, follow_up_df, original_rate,
                   bootstrap_rates, resample, emitted, prevOut, analysis>>

InitBoot ==
    /\ manager_disable = NOTSET
    /\ RateQuiet
    /\ DpQuiet
    /\ CiQuiet
    /\ RunQuiet
    /\ df \in Datasets
    /\ \E name \in Disorders, n \in 0 .. MaxIter, size \in SampleSizes,
          seed \in Seeds :
          args = [disorder_name |-> name, n_iterations |-> n,
                  sample_size |-> size, random_state |-> seed,
                  confidence_level |-> Frac(1, 2)]

NextBoot == BootstrapCall \/ BootstrapIter \/ BootstrapReturn

SpecBoot == InitBoot /\ [][NextBoot]_vars

----------------------------------------------------------------------------
\* analyze_disorder_prevalence

RECURSIVE FSum(_)
FSum(s) == IF s = <<>> THEN Zero ELSE FAdd(s[1], FSum(Tail(s)))

\* np.std(rates) is the square root of the population variance (divide by N)
\* computed here; nan for no data.
np_var(rates) ==
    IF rates = <<>> THEN NaN
    ELSE LET n == Len(rates)
             mean == FMul(FSum(rates), Frac(1, n))
             sq == [k \in 1 .. n |->
                       FMul(FSub(rates[k], mean), FSub(rates[k], mean))]
         IN  FMul(FSum(sq), Frac(1, n))

Summary ==
    << <<"INFO", "Original Prevalence Rate">>,
       <<"INFO", "Confidence Interval">>,
       <<"INFO", "Standard Error">> >>

\* Lines 205-208 up to the start of the loop in bootstrap_prevalence_rate:
\* INFO records are disabled, then the bootstrap begins.
AnalyzeCall ==
    /\ pc = "idle"
    /\ manager_disable' = INFO
    /\ BootBegin(INFO)
    /\ UNCHANGED <<rateVars, df, dpVars, ciVars, args, prevOut, analysis>>

\* Lines 209-221, once the bootstrap has returned: the interval and the
\* standard error, logging enabled again, the summary, the result.  An
\* exception of np.percentile leaves the function at line 209.
AnalyzeFinish ==
    /\ pc = "loop"
    /\ Len(bootstrap_rates) = args.n_iterations
    /\ \E onEmpty \in NumpyOnEmpty :
          LET ci == calculate_confidence_interval(bootstrap_rates,
                                                  args.confidence_level, onEmpty)
          IN  IF ci.raised
              THEN /\ pc' = "raised"
                   /\ UNCHANGED <<manager_disable, emitted, analysis>>
              ELSE /\ pc' = "done"
                   /\ manager_disable' = NOTSET
                   /\ emitted' = emitted \o Handle(Summary, NOTSET)
                   /\ analysis' =
                         <<[original_rate |-> original_rate,
                            confidence_interval |-> <<ci.lower, ci.upper>>,
                            bootstrap_rates |-> bootstrap_rates,
                            variance |-> np_var(bootstrap_rates)]>>
    /\ UNCHANGED <<rateVars, df, dpVars, ciVars, args, rng, main_question_df,
                   follow_up_df, original_rate, bootstrap_rates, resample,
                   prevOut>>

\* analyze_disorder_prevalence passes no sample_size: it is None.
InitAnalyze ==
    /\ manager_disable = NOTSET
    /\ RateQuiet
    /\ DpQuiet
    /\ CiQuiet
    /\ RunQuiet
    /\ df \in Datasets
    /\ \E name \in Disorders, n \in 0 .. MaxIter, seed \in Seeds,
          cl \in ConfidenceLevels \ {Zero} :
          args = [disorder_name |-> name, n_iterations |-> n,
                  sample_size |-> <<>>, random_state |-> seed,
                  confidence_level |-> cl]

NextAnalyze == AnalyzeCall \/ BootstrapIter \/ AnalyzeFinish

SpecAnalyze == InitAnalyze /\ [][NextAnalyze]_vars

----------------------------------------------------------------------------
\* Claims about bootstrap_prevalence_rate (checked under SpecBoot).

InUnitInterval(x) == FLeq(Zero, x) /\ FLeq(x, One)

\* C3: for every dataset, disorder_name, n_iterations >= 0, sample_size and
\* random_state the call returns bootstrap_rates with exactly n_iterations
\* entries, each a rate in [0, 1], datasets with an empty main-question or
\* follow-up group included.
C3_ReturnsAllRates ==
    /\ pc # "raised"
    /\ pc = "loop" =>
          /\ Len(bootstrap_rates) <= args.n_iterations
          /\ \A k \in DOMAIN bootstrap_rates : InUnitInterval(bootstrap_rates[k])
    /\ pc = "returned" =>
          /\ Len(bootstrap_rates) = args.n_iterations
          /\ \A k \in DOMAIN bootstrap_rates : InUnitInterval(bootstrap_rates[k])

RECURSIVE Advance(_, _)
Advance(state, k) == IF k = 0 THEN state ELSE Advance(Lcg(state), k - 1)

\* C4: a second call with the same dataset, disorder_name, n_iterations,
\* sample_size and random_state returns the same original_rate and the same
\* bootstrap_rates, entry by entry; the generator is the one seeded from
\* random_state before the loop, advanced by the draws of the main sample and
\* then of the follow-up sample of each iteration, and by nothing else.
C4_Deterministic ==
    /\ (pc \in {"loop", "returned"} /\ prevOut # <<>>) =>
          /\ original_rate = prevOut[1].original_rate
          /\ bootstrap_rates =
                SubSeq(prevOut[1].bootstrap_rates, 1, Len(bootstrap_rates))
    /\ (pc = "returned" /\ prevOut # <<>>) =>
          bootstrap_rates = prevOut[1].bootstrap_rates
    /\ pc \in {"loop", "returned"} =>
          rng = Advance(args.random_state % 16,
                        Len(bootstrap_rates)
                          * (SampleN(args.sample_size, main_question_df)
                               + SampleN(args.sample_size, follow_up_df)))

\* A second call has returned the rates of the first, and the draws mattered:
\* two entries of bootstrap_rates differ.
C4_Witness ==
    /\ pc = "returned"
    /\ prevOut # <<>>
    /\ Len(bootstrap_rates) >= 2
    /\ bootstrap_rates[1] # bootstrap_rates[2]
    /\ bootstrap_rates = prevOut[1].bootstrap_rates

\* C9: in every iteration the main sample has sample_size rows when
\* sample_size is given (0 included) and len(main_question_rows) rows when it
\* is None, the follow-up sample likewise, and the population and
\* total_condition_reports counts of the resample are those sizes.
C9_SampleSizes ==
    resample # <<>> =>
        LET wantMain == IF args.sample_size # <<>> THEN args.sample_size[1]
                        ELSE Len(main_question_df)
            wantFollow == IF args.sample_size # <<>> THEN args.sample_size[1]
                          ELSE Len(follow_up_df)
        IN  /\ resample[1].main = wantMain
            /\ resample[1].follow_up = wantFollow
            /\ resample[1].population = wantMain
            /\ resample[1].total_condition_reports = wantFollow

----------------------------------------------------------------------------
\* Claims about analyze_disorder_prevalence (checked under SpecAnalyze).

\* C10: INFO records are disabled from before the bootstrap starts until the
\* interval and the standard error are computed; in between no log record is
\* emitted, whatever the dataset; the records of the call are the three
\* summary records alone; and when the call ends, by return or by an
\* exception, logging is enabled again.
C10_QuietWindow ==
    /\ pc = "loop" => (manager_disable = INFO /\ emitted = <<>>)
    /\ pc = "done" => (manager_disable = NOTSET /\ emitted = Summary)
    /\ pc = "raised" => (manager_disable = NOTSET /\ emitted = <<>>)

----------------------------------------------------------------------------
\* Claims about calculate_prevalence_rate (checked under SpecRate).

RateCalled == rateArgs # <<>>

\* C1: with population > 0 and total_condition_reports > 0 the returned rate
\* lies in [0, 1], that is diagnosed_cases * specific_condition_count <=
\* population * total_condition_reports, for any four non-negative integers;
\* with population = 0 the rate is 0.0.
C1_RateInUnitInterval ==
    RateCalled =>
        LET a == rateArgs[1]
        IN  /\ (a.population > 0 /\ a.total_condition_reports > 0) =>
                  /\ ~rateRet.raised
                  /\ FLeq(Zero, rateRet.rate)
                  /\ FLeq(rateRet.rate, One)
                  /\ a.diagnosed_cases * a.specific_condition_count
                        <= a.population * a.total_condition_reports
            /\ (a.population = 0) => (rateRet.rate = Zero)

\* C2: for every four non-negative integers the call returns a number without
\* raising, and the number is exactly 0.0 when population = 0 or when
\* total_condition_reports = 0.
C2_NoRaiseZeroGuards ==
    RateCalled =>
        LET a == rateArgs[1]
        IN  /\ ~rateRet.raised
            /\ (a.population = 0 \/ a.total_condition_reports = 0) =>
                  (rateRet.rate = Zero)

\* A call with a positive population and diagnosed count, no condition report
\* and a positive specific count has returned.
C2_Witness ==
    /\ RateCalled
    /\ rateArgs[1].population > 0
    /\ rateArgs[1].diagnosed_cases > 0
    /\ rateArgs[1].total_condition_reports = 0
    /\ rateArgs[1].specific_condition_count > 0
    /\ ~rateRet.raised
    /\ rateRet.rate = Zero

RateWarned ==
    HasRecord(rateRet.log, "WARNING", "Diagnosed cases exceed population")

\* C6 as stated: the data-quality warning is emitted exactly when
\* diagnosed_cases > population, population = 0 included.
C6_WarnsWheneverExceeds ==
    RateCalled =>
        (RateWarned <=>
            rateArgs[1].diagnosed_cases > rateArgs[1].population)

\* C6 amended: the warning is emitted exactly when population > 0 and
\* diagnosed_cases > population, and the rate is then computed from the
\* unclamped counts; with population = 0 no warning is emitted: the call logs
\* the population error and returns 0.0.
C6_WarnsWhenPositivePopulationExceeded ==
    RateCalled =>
        LET a == rateArgs[1]
        IN  /\ RateWarned <=>
                  (a.population > 0 /\ a.diagnosed_cases > a.population)
            /\ (RateWarned /\ a.total_condition_reports > 0) =>
                  /\ ~rateRet.raised
                  /\ rateRet.rate.n * a.population * a.total_condition_reports
                        = rateRet.rate.d * a.diagnosed_cases
                            * a.specific_condition_count
            /\ (a.population = 0) =>
                  /\ HasRecord(rateRet.log, "ERROR", "Population cannot be zero")
                  /\ rateRet.rate = Zero

\* A call with diagnosed_cases > population > 0 was warned about while INFO
\* records were disabled, and returned a rate above 1.
C6_Witness ==
    /\ RateCalled
    /\ manager_disable = INFO
    /\ rateArgs[1].population > 0
    /\ rateArgs[1].diagnosed_cases > rateArgs[1].population
    /\ RateWarned
    /\ FLt(One, rateRet.rate)

\* C7: with population > 0 and total_condition_reports > 0 kept, the rate does
\* not decrease when diagnosed_cases grows (specific_condition_count kept) nor
\* when specific_condition_count grows (diagnosed_cases kept).
C7_Monotone ==
    (RateCalled /\ ratePrev # <<>>) =>
        LET a == rateArgs[1]
            b == ratePrev[1].args
        IN  ( /\ a.population > 0
              /\ a.total_condition_reports > 0
              /\ \/ (b.diagnosed_cases <= a.diagnosed_cases
                        /\ b.specific_condition_count = a.specific_condition_count)
                 \/ (b.specific_condition_count <= a.specific_condition_count
                        /\ b.diagnosed_cases = a.diagnosed_cases) )
            => /\ ~rateRet.raised
               /\ ~ratePrev[1].ret.raised
               /\ FLeq(ratePrev[1].ret.rate, rateRet.rate)

\* Two calls that differ in diagnosed_cases alone, the second with more
\* diagnosed cases and a strictly larger rate.
C7_Witness ==
    /\ RateCalled
    /\ ratePrev # <<>>
    /\ rateArgs[1].population > 0
    /\ rateArgs[1].total_condition_reports > 0
    /\ ratePrev[1].args.diagnosed_cases < rateArgs[1].diagnosed_cases
    /\ ratePrev[1].args.specific_condition_count
          = rateArgs[1].specific_condition_count
    /\ FLt(ratePrev[1].ret.rate, rateRet.rate)

====
